---- MODULE Spec2Model ----
(***************************************************************************)
(* Branch-and-price template (src/branch_and_price.py,                     *)
(* src/template/column_generation.py) and its cutting-stock instantiation  *)
(* (src/cut_stock_example/*.py) as one state machine.                      *)
(*                                                                         *)
(* impl selects which of the two implementations runs.  The LP/MIP solver  *)
(* behind the RMP and the pricing SubProblem is an opaque service: every   *)
(* RMP solve chooses feasible/infeasible and an objective value, every     *)
(* pricing solve chooses (None, None) or (objective, column); the dual     *)
(* values handed to the pricing are those of the RMP's LP.  The            *)
(* template's methods whose body is `pass` are abstract: they return what  *)
(* their docstring promises, chosen from the same small sets.              *)
(*                                                                         *)
(* Floats are integers in units of 1e-6 (the convergence tolerance is 1).  *)
(* Python values are tagged records: None, Num (float), Vec (numpy array   *)
(* of item counts), Tup (2-tuple), Lam (the array of lambda weights, kept  *)
(* as its length and whether some weight lies strictly between 0 and 1),   *)
(* Solution (objective_value).                                             *)
(***************************************************************************)
EXTENDS Integers, Sequences, FiniteSets, TLC

\* ---------------------------------------------------------------- bounds
\* Iteration cap of the column-generation loop (250 in the source), scaled.
MAX_ITERATION == 2
\* Cap on the number of tree nodes ever created.
MaxNodes == 5
\* Cap on the number of nodes of a tree built through the Node class alone.
MaxTreeNodes == 4
\* Instances given to the packing heuristic: item types, roll width, demand.
MaxItems == 2
MaxWidth == 4
MaxDemand == 2
\* The least roll width, size and demand of those instances is -MaxNegative.
MaxNegative == 2
\* Cap on the direct ColumnGenerationSolver.solve() calls of one run.
MaxCalls == 2
\* Largest |sp_objval - reduced_cost| given to the stopping test, in units
\* of 1e-6.
MaxDiff == 10

\* ---------------------------------------------------------------- values
UNIT == 1000 * 1000
\* The literal 1e-6 of the stopping criterion, in units of 1e-6.
TOL == 1

None == [t |-> "None"]
Num(n) == [t |-> "num", n |-> n]
Vec(x) == [t |-> "vec", x |-> x]
Tup(a, b) == [t |-> "tuple", a |-> a, b |-> b]
Lam(n, f) == [t |-> "lam", len |-> n, frac |-> f]
Solution(o) == [t |-> "Solution", objective_value |-> o]
Exc(e) == [t |-> "exc", e |-> e]

\* Objective values the opaque solver / the repair policy may report.
Objs == {UNIT, 2 * UNIT}
\* Pricing objective minus reduced-cost reference, in units of 1e-6.
Deltas == {0, 2}

VARIABLES
    impl,            \* "template" | "cutstock"
    problem,         \* the Problem / CutStockProblem instance
    repair,          \* "default" (the code's stub) | "pluggable"
    pc,              \* control position of BranchAndPriceSolver.solve
    node_list,       \* BranchAndPriceSolver._node_list (node ids)
    nodes,           \* every Node created so far, by id
    incumbent,       \* BranchAndPriceSolver._incumbent_solution
    solution,        \* BranchAndPriceSolver.solution
    returned,        \* what BranchAndPriceSolver.solve returned
    cur,             \* the node popped by _get_next_node
    ret,             \* what Node.solve returned
    exit,            \* how the last ColumnGenerationSolver.solve ended
    iteration,       \* local `iteration` of ColumnGenerationSolver.solve
    rmp_solves,      \* rmp.solve() calls in the current solve call
    added,           \* columns appended in the current solve call
    add_calls,       \* add-restriction calls in the current solve call
    remove_calls,    \* remove-restriction calls in the current solve call
    applied,         \* restriction lists applied and not yet removed
    extreme_points,  \* rmp.extreme_points / rmp.extreme_point
    cg_solvers,      \* ColumnGenerationSolver objects constructed
    error,           \* the exception that ended the run, or "none"
    last,            \* what the last loop body of the tree search did
    backend,         \* "opaque" | "computed": how LP/MIP answers are drawn
    calls,           \* direct ColumnGenerationSolver.solve() calls made
    rmp_cols,        \* columns in the RMP model at its last solve
    sp_objective,    \* objective coefficients last set on the SubProblem
    sp_call,         \* what the last SubProblem.solve call did
    priced           \* the last pricing result of the current solve call

vars == <<impl, problem, repair, pc, node_list, nodes, incumbent, solution,
          returned, cur, ret, exit, iteration, rmp_solves, added, add_calls,
          remove_calls, applied, extreme_points, cg_solvers, error, last,
          backend, calls, rmp_cols, sp_objective, sp_call, priced>>

bpvars == <<node_list, nodes, incumbent, solution, returned, cur, last>>
spvars == <<rmp_cols, sp_objective, sp_call>>
cgvars == <<iteration, rmp_solves, added, add_calls, remove_calls, applied,
            extreme_points, rmp_cols, sp_objective, sp_call, priced>>

\* ------------------------------------------------------------- problems
\* Problem.__init__ : the base class sets sense "max"; the solvers also
\* handle "min", which a subclass sets.
Problem(s) ==
    [sense |-> s, num_items |-> 0, roll_width |-> 0, size |-> <<>>,
     demand |-> <<>>]

\* CutStockProblem.__init__ : sense is always "max".
CutStockProblem(w, size, demand) ==
    [sense |-> "max", num_items |-> Len(size), roll_width |-> w,
     size |-> size, demand |-> demand]

Instances == {CutStockProblem(10, <<5>>, <<2>>)}

\* Sizes 50 and 70, demands 10 and 5, rolls of width 100.
ScenarioA == CutStockProblem(100, <<50, 70>>, <<10, 5>>)

\* Two items of size 60, one of each, rolls of width 100: two rolls needed.
ScenarioB == CutStockProblem(100, <<60, 60>>, <<1, 1>>)

\* x.dot(size)
RECURSIVE DotUpTo(_, _, _)
DotUpTo(x, size, k) ==
    IF k = 0 THEN 0 ELSE x[k] * size[k] + DotUpTo(x, size, k - 1)
Dot(x, size) == DotUpTo(x, size, Len(x))

\* One pass of the inner while loop of get_heuristic_solution.
RECURSIVE HeurPackMutant(_, _, _, _)
HeurPackMutant(p, x, i, d) ==
    IF ~(d < p.demand[i]) THEN x
    ELSE LET opened == IF Dot(x[Len(x)], p.size) > p.roll_width
                       THEN Append(x, [k \in 1..p.num_items |-> 0])
                       ELSE x
             put == [opened EXCEPT ![Len(opened)][i] = @ + 1]
         IN HeurPackMutant(p, put, i, d + 1)
RECURSIVE HeurPack(_, _, _, _)
HeurPack(p, x, i, d) ==
    IF ~(d < p.demand[i]) THEN x
    ELSE LET opened == IF Dot(x[Len(x)], p.size) + p.size[i] > p.roll_width
                       THEN Append(x, [k \in 1..p.num_items |-> 0])
                       ELSE x
             put == [opened EXCEPT ![Len(opened)][i] = @ + 1]
         IN HeurPack(p, put, i, d + 1)

RECURSIVE HeurItems(_, _, _)
HeurItems(p, x, i) ==
    IF i > p.num_items THEN x ELSE HeurItems(p, HeurPack(p, x, i, 0), i + 1)

\* CutStockProblem.get_heuristic_solution
get_heuristic_solution(p) ==
    HeurItems(p, <<[k \in 1..p.num_items |-> 0]>>, 1)

\* ---------------------------------------------------------------- nodes
\* Node.__init__ : parent 0 stands for None; the solver reference is copied
\* from the parent; no fixing.
Node(parent, solver) ==
    [parent |-> parent, cg_solver |-> solver, fixed_var |-> None]

\* Node.create_child
create_childMutant(parent) == Node(parent, nodes[parent].cg_solver + 1)
create_child(parent) == Node(parent, nodes[parent].cg_solver)

\* Node.add_fixed_var : `self._fixed_var = (var, val)`
Fixing(var, val) == [t |-> "fix", var |-> var, val |-> val]
add_fixed_var(ns, n, var, val) ==
    [ns EXCEPT ![n].fixed_var = Fixing(var, val)]

\* Node a is reached from node n by one or more parent links.
RECURSIVE IsDescendant(_, _, _)
IsDescendant(ns, n, a) ==
    /\ ns[n].parent # 0
    /\ (ns[n].parent = a \/ IsDescendant(ns, ns[n].parent, a))

\* The number of parent links from node n to the root.
RECURSIVE Depth(_, _)
Depth(ns, n) == IF ns[n].parent = 0 THEN 0 ELSE 1 + Depth(ns, ns[n].parent)

\* The node k parent links above node n.
RECURSIVE Ancestor(_, _, _)
Ancestor(ns, n, k) == IF k = 0 THEN n ELSE Ancestor(ns, ns[n].parent, k - 1)

\* Node.get_fixed_vars / Node.get_branch_constraints
RECURSIVE get_fixed_varsMutant(_, _)
get_fixed_varsMutant(ns, n) ==
    IF ns[n].parent = 0
    THEN IF ns[n].fixed_var = None THEN <<>> ELSE <<ns[n].fixed_var>>
    ELSE get_fixed_varsMutant(ns, ns[n].parent) \o <<ns[n].fixed_var>>
RECURSIVE get_fixed_vars(_, _)
get_fixed_vars(ns, n) ==
    IF ns[n].parent = 0
    THEN IF ns[n].fixed_var = None THEN <<>> ELSE <<ns[n].fixed_var>>
    ELSE <<ns[n].fixed_var>> \o get_fixed_vars(ns, ns[n].parent)

\* SubProblem.solve has not been called.
NoSpCall ==
    [called |-> FALSE, within |-> FALSE, len |-> 0, raised |-> FALSE,
     objective_set |-> FALSE, solved |-> FALSE, returned |-> FALSE,
     objective_before |-> None]

\* No loop body has run for the node in hand.
NoLast ==
    [processed |-> FALSE, how |-> "none", bound |-> None, integral |-> FALSE,
     repair_called |-> FALSE, repaired |-> None, compared |-> FALSE,
     pruned |-> FALSE, pushed |-> 0, before |-> None]

\* ------------------------------------------------------------------ Init
Init ==
    /\ impl \in {"template", "cutstock"}
    /\ problem \in IF impl = "template"
                   THEN {Problem(s) : s \in {"max", "min"}}
                   ELSE Instances
    /\ repair \in {"default", "pluggable"}
    /\ pc = "start"
    /\ node_list = <<>>
    /\ nodes = <<>>
    /\ incumbent = None
    /\ solution = None
    /\ returned = None
    /\ cur = 0
    /\ ret = None
    /\ exit = "none"
    /\ iteration = 0
    /\ rmp_solves = 0
    /\ added = 0
    /\ add_calls = 0
    /\ remove_calls = 0
    /\ applied = <<>>
    /\ extreme_points = <<>>
    /\ cg_solvers = 0
    /\ error = "none"
    /\ last = NoLast
    /\ backend = "opaque"
    /\ calls = 0
    /\ rmp_cols = 0
    /\ sp_objective = None
    /\ sp_call = NoSpCall
    /\ priced = None


\* ----------------------------------------------------- opaque solver I/O
Max(S) == CHOOSE m \in S : \A k \in S : k <= m
Min(S) == CHOOSE m \in S : \A k \in S : m <= k

\* The integer points of the knapsack `scal_prod(x, size) <= roll_width`.
Patterns(p) ==
    LET most == Max({p.roll_width \div p.size[i] : i \in 1..p.num_items})
    IN {x \in [1..p.num_items -> 0..most] : Dot(x, p.size) <= p.roll_width}

\* Columns a pricing solve may return: for the cutting-stock knapsack any
\* pattern no further item fits into (the maximisers of an objective with
\* positive dual values); for the template, whose column type is Any, a
\* plain number or an array.
Cols(p) ==
    IF impl = "cutstock"
    THEN {Vec(x) : x \in {z \in Patterns(p) :
                            \A i \in 1..p.num_items :
                               Dot(z, p.size) + p.size[i] > p.roll_width}}
    ELSE {Num(UNIT), Num(2 * UNIT), Vec(<<1, 0>>)}

\* RestrictedMasterProblem.get_reduced_cost : "For this formulation,
\* reduced cost is 1".
get_reduced_cost == Num(UNIT)

\* SubProblem.solve : (objective_value, column), or (None, None) when the
\* pricing model has no solution.
SpOutcomes ==
    {Tup(None, None)} \cup
    {Tup(Num(get_reduced_cost.n + d), c) : d \in Deltas, c \in Cols(problem)}

\* RestrictedMasterProblem.get_solution : the lambda weights, one per column.
get_solution(eps) == {Lam(Len(eps), f) : f \in BOOLEAN}

\* RestrictedMasterProblem.get_objective_value
get_objective_value == {Num(o) : o \in Objs}

\* BranchAndPriceSolver._heuristic_repair : the code returns None; a
\* plugged-in policy returns a Solution or None.
_heuristic_repair(partial_solution) ==
    IF repair = "default" \/ partial_solution = None
    THEN {None}
    ELSE {None} \cup {Solution(o) : o \in Objs}

\* --------------------------------------------------- computed solver I/O
\* With backend = "computed" the answers of the two CPLEX models are worked
\* out from the models the code builds.  The RMP is
\*     min sum(lambda)  s.t.  sum_j lambda_j * x_j[i] >= demand[i],
\* its dual  max demand.y  s.t.  x_j.y <= 1, y >= 0; the SubProblem is the
\* integer knapsack  max dual_values.x  s.t.  size.x <= roll_width, x >= 0.
\* Dual values are taken on the grid of quarters, which holds an optimal
\* vertex for every column set the instances of the model can reach.

\* len(self.demand_cts) and len(self.x)
NumDemandCts(p) == p.num_items
NumSpVars(p) == p.num_items

\* `mdl.solution is not None` after rmp.solve(): lambda is unbounded above,
\* so the LP has a solution when every demanded item is in some column.
is_feasible(p, cols) ==
    IF backend = "computed"
    THEN {\A i \in 1..p.num_items :
             p.demand[i] > 0 => \E j \in 1..Len(cols) : cols[j].x[i] > 0}
    ELSE BOOLEAN

DualGrid == {k * (UNIT \div 4) : k \in 0..4}

DualFeasible(p, cols) ==
    LET X == {cols[j].x : j \in 1..Len(cols)}
    IN {y \in [1..NumDemandCts(p) -> DualGrid] :
           \A x \in X : Dot(x, y) <= UNIT}

\* The optimal value of the RMP over the columns cols, in units of 1e-6.
LPValue(p, cols) == Max({Dot(p.demand, y) : y \in DualFeasible(p, cols)})

\* RestrictedMasterProblem.get_dual_values : the dual values of the demand
\* constraints after rmp.solve(), one per constraint, with either backend;
\* any optimal dual solution may be reported.
get_dual_values(p, cols) ==
    LET Y == DualFeasible(p, cols)
        best == Max({Dot(p.demand, y) : y \in Y})
    IN {Vec(y) : y \in {z \in Y : Dot(p.demand, z) = best}}

\* What `self.mdl.solve()` of the SubProblem reports for the objective
\* dual_values: (objective_value, solution), any optimal solution.
Pricing(p, dual_values) ==
    IF backend = "computed"
    THEN LET best == Max({Dot(dual_values.x, x) : x \in Patterns(p)})
         IN {Tup(Num(best), Vec(x)) :
                x \in {z \in Patterns(p) : Dot(dual_values.x, z) = best}}
    ELSE SpOutcomes

\* `assert len(dual_values) == len(self.x)`
DimensionsMatchMutant(p, dual_values) == Len(dual_values.x) <= NumSpVars(p)
DimensionsMatch(p, dual_values) == Len(dual_values.x) = NumSpVars(p)

\* SubProblem.solve(dual_values) : what the call does and returns.
SubProblemSolve(p, dual_values) ==
    IF ~DimensionsMatch(p, dual_values)
    THEN {[raised |-> TRUE, objective_set |-> FALSE, solved |-> FALSE,
           result |-> Exc("AssertionError")]}
    ELSE {[raised |-> FALSE, objective_set |-> TRUE, solved |-> TRUE,
           result |-> r] : r \in Pricing(p, dual_values)}

\* The record of one SubProblem.solve call.
SpCall(within, dual_values, c) ==
    [called |-> TRUE, within |-> within, len |-> Len(dual_values.x),
     raised |-> c.raised, objective_set |-> c.objective_set,
     solved |-> c.solved,
     returned |-> (~c.raised /\ c.result.b # None),
     objective_before |-> sp_objective]

\* RestrictedMasterProblem.get_objective_value : "objective value of last
\* solve", the LP value over the columns the model held at that solve.
RmpObjectiveValue == Num(LPValue(problem, SubSeq(extreme_points, 1, rmp_cols)))

\* CutStockProblem.cplex_solve : the optimum of the compact model.  Its
\* capacity row is  sum_i x[b,i] <= roll_width * y[b]  (item counts, not
\* sizes), so k open rolls serve the demand exactly when k * roll_width
\* is at least the total demand.
cplex_solve(p) ==
    LET B == Len(get_heuristic_solution(p))
        total == Dot(p.demand, [i \in 1..p.num_items |-> 1])
    IN Min({k \in 0..B : k * p.roll_width >= total})

\* The least number of rolls that serves the demand, each roll cut by a
\* pattern of Patterns: the integer optimum of the instance.
RECURSIVE Rolls(_, _)
Rolls(m, S) ==
    IF S = {} THEN 0
    ELSE LET x == CHOOSE z \in S : TRUE IN m[x] + Rolls(m, S \ {x})
RECURSIVE Cut(_, _, _)
Cut(m, S, i) ==
    IF S = {} THEN 0
    ELSE LET x == CHOOSE z \in S : TRUE IN m[x] * x[i] + Cut(m, S \ {x}, i)
MinRolls(p) ==
    LET P == Patterns(p)
        maximal == {x \in P : ~\E z \in P :
                       z # x /\ \A i \in 1..p.num_items : z[i] >= x[i]}
        B == Len(get_heuristic_solution(p))
    IN Min({Rolls(m, maximal) :
              m \in {c \in [maximal -> 0..B] :
                       \A i \in 1..p.num_items :
                          Cut(c, maximal, i) >= p.demand[i]}})

\* ------------------------------------------- ColumnGenerationSolver.solve
\* `while iteration < self.MAX_ITERATION`
LoopGuardMutant(it) == it <= MAX_ITERATION
LoopGuard(it) == it < MAX_ITERATION

\* A Python float that is n units of 1e-6 up to rounding: binary floats
\* are not multiples of 1e-6, so the value lies just below (r = -1), at
\* (r = 0) or just above (r = 1) the multiple, always by less than a unit.
Float(n, r) == [t |-> "num", n |-> n, r |-> r]

\* The sides of the multiple the float difference a - b may fall on.  A
\* value minus itself is exactly 0, and whole quarters are binary fractions,
\* whose difference is exact; 1.000001 - 1 is 9.999999999177334e-07 and
\* 3.000001 - 3 is 1.000000000139778e-06.
Rounding(a, b) ==
    IF a = b \/ (a % (UNIT \div 4) = 0 /\ b % (UNIT \div 4) = 0)
    THEN {0}
    ELSE {0 - 1, 0, 1}

\* The values `sp_objval - reduced_cost` may take as a Python float, or the
\* exception the subtraction / the truth test raises.  A numpy array of one
\* element behaves as its element; a longer one has no truth value.
Difference(sp_objval, reduced_cost) ==
    CASE sp_objval.t = "num" ->
             {Float(sp_objval.n - reduced_cost.n, r) :
                 r \in Rounding(sp_objval.n, reduced_cost.n)}
      [] sp_objval.t = "vec" /\ Len(sp_objval.x) = 1 ->
             {Float(sp_objval.x[1] * UNIT - reduced_cost.n, r) :
                 r \in Rounding(sp_objval.x[1] * UNIT, reduced_cost.n)}
      [] sp_objval.t = "vec" -> {Exc("ValueError")}
      [] OTHER -> {Exc("TypeError")}

\* The float comparisons `d <= k * 1e-6` and `d >= k * 1e-6`.
AtMost(d, k) == d.n < k \/ (d.n = k /\ d.r <= 0)
AtLeast(d, k) == d.n > k \/ (d.n = k /\ d.r >= 0)

\* "Check stopping criteria": TRUE when the loop is left.
StopsMutant(d, sense) ==
    \/ (AtLeast(d, TOL) /\ sense = "max")
    \/ (AtMost(d, TOL) /\ sense = "min")
Stops(d, sense) ==
    \/ (AtMost(d, TOL) /\ sense = "max")
    \/ (AtLeast(d, TOL) /\ sense = "min")

\* ColumnGenerationSolver.__init__ : the template starts with no column, the
\* cutting-stock solver loads the heuristic patterns.
InitialColumnsMutant ==
    IF impl = "cutstock"
    THEN LET h == get_heuristic_solution(problem)
         IN [k \in 1..(Len(h) - 1) |-> Vec(h[k])]
    ELSE <<>>
InitialColumns ==
    IF impl = "cutstock"
    THEN LET h == get_heuristic_solution(problem)
         IN [k \in 1..Len(h) |-> Vec(h[k])]
    ELSE <<>>

\* RestrictedMasterProblem.add_extreme_point : the column list after the
\* call (`self.extreme_points.append(x)`).
add_extreme_pointMutant(eps, x) == <<x>>
add_extreme_point(eps, x) == Append(eps, x)

\* _add_fixed_vars / _add_branch_constraints at the entry of solve
Enter(fixings) ==
    /\ add_calls' = 1
    /\ remove_calls' = 0
    /\ applied' = Append(applied, fixings)
    /\ iteration' = 0
    /\ rmp_solves' = 0
    /\ added' = 0
    /\ exit' = "none"
    /\ ret' = None
    /\ priced' = None

\* _remove_fixed_vars / _remove_branch_constraints : "Removes all fixed
\* variables"
Remove ==
    /\ remove_calls' = remove_calls + 1
    /\ applied' = <<>>

NoRemove == UNCHANGED <<remove_calls, applied>>

Raise(e) ==
    /\ pc' = "error"
    /\ error' = e
    /\ exit' = "raised"
    /\ ret' = None

Return(how, value) ==
    /\ pc' = "ret"
    /\ exit' = how
    /\ ret' = value
    /\ error' = error

\* What one pass of the loop got from self.sp.solve, which of the two
\* components it put through the stopping test, and how many columns the
\* RMP held before the pass.
Priced(result, tested) ==
    [t |-> "priced", result |-> result, tested |-> tested,
     before |-> Len(extreme_points)]

\* One pass of the while loop of the template's solve
\* (src/template/column_generation.py).
TemplateCGIterate ==
    /\ pc = "cg" /\ impl = "template"
    /\ LoopGuard(iteration)
    /\ iteration' = iteration + 1
    /\ rmp_solves' = rmp_solves + 1
    /\ UNCHANGED <<impl, problem, repair, backend, calls,
                   rmp_cols, sp_objective, sp_call, add_calls, cg_solvers>>
    /\ UNCHANGED bpvars
    /\ \E feasible \in BOOLEAN :
         IF ~feasible
         THEN \* return None, None
              /\ Return("infeasible", Tup(None, None))
              /\ NoRemove
              /\ UNCHANGED <<extreme_points, added, priced>>
         ELSE \E r \in SpOutcomes :
              LET ep == r.a        \* ep, sp_objval = self.sp.solve(...)
                  sp_objval == r.b
              IN \E d \in Difference(sp_objval, get_reduced_cost) :
                 /\ extreme_points' = add_extreme_point(extreme_points, ep)
                 /\ added' = added + 1
                 /\ priced' = Priced(r, sp_objval)
                 /\ NoRemove
                 /\ IF d.t = "exc"
                    THEN Raise(d.e)
                    ELSE IF Stops(d, problem.sense)
                    THEN \E o \in get_objective_value :
                         \E x \in get_solution(extreme_points') :
                            Return("converged", Tup(o, x))
                    ELSE /\ UNCHANGED <<pc, exit, ret, error>>

\* The template's loop ends on the cap: fixings are removed and the
\* function falls off its end.
TemplateCGLimit ==
    /\ pc = "cg" /\ impl = "template"
    /\ ~LoopGuard(iteration)
    /\ Remove
    /\ Return("limit", None)
    /\ UNCHANGED <<impl, problem, repair, backend, calls,
                   rmp_cols, sp_objective, sp_call, priced, iteration,
                   rmp_solves,
                   added,
                   add_calls, extreme_points, cg_solvers>>
    /\ UNCHANGED bpvars

\* One pass of the while loop of the cutting-stock solve
\* (src/cut_stock_example/column_generation.py), with the code after the
\* loop when the pass breaks out of it.
CutStockCGIterate ==
    /\ pc = "cg" /\ impl = "cutstock"
    /\ LoopGuard(iteration)
    /\ iteration' = iteration + 1
    /\ rmp_solves' = rmp_solves + 1
    /\ rmp_cols' = Len(extreme_points)
    /\ UNCHANGED <<impl, problem, repair, backend, calls, add_calls,
                   cg_solvers>>
    /\ UNCHANGED bpvars
    /\ \E feasible \in is_feasible(problem, extreme_points) :
         IF ~feasible
         THEN /\ Remove
              /\ Return("infeasible", Tup(None, None))
              /\ UNCHANGED <<extreme_points, added, sp_objective, sp_call,
                             priced>>
         ELSE \E dual_values \in get_dual_values(problem, extreme_points) :
              \E c \in SubProblemSolve(problem, dual_values) :
              /\ sp_call' = SpCall(TRUE, dual_values, c)
              /\ sp_objective' = IF c.objective_set THEN dual_values
                                 ELSE sp_objective
              /\ IF c.raised
                 THEN /\ Raise(c.result.e)
                      /\ NoRemove
                      /\ UNCHANGED <<extreme_points, added, priced>>
                 ELSE
                 \* sp_objval, ep = self.sp.solve(dual_values)
                 LET sp_objval == c.result.a
                     ep == c.result.b
                 IN \E d \in Difference(sp_objval, get_reduced_cost) :
                    \* add_extreme_point appends x, then reads x[i]
                    /\ extreme_points' = add_extreme_point(extreme_points, ep)
                    /\ added' = added + 1
                    /\ priced' = Priced(c.result, sp_objval)
                    /\ IF ep = None
                       THEN Raise("TypeError") /\ NoRemove
                       ELSE IF Stops(d, problem.sense)
                       THEN /\ Remove
                            /\ \E x \in get_solution(extreme_points') :
                                  Return("converged", x)
                       ELSE /\ NoRemove
                            /\ UNCHANGED <<pc, exit, ret, error>>

\* The cutting-stock loop ends on the cap.
CutStockCGLimit ==
    /\ pc = "cg" /\ impl = "cutstock"
    /\ ~LoopGuard(iteration)
    /\ Remove
    /\ \E x \in get_solution(extreme_points) : Return("limit", x)
    /\ UNCHANGED <<impl, problem, repair, backend, calls,
                   rmp_cols, sp_objective, sp_call, priced, iteration,
                   rmp_solves,
                   added,
                   add_calls, extreme_points, cg_solvers>>
    /\ UNCHANGED bpvars


\* The restrictions in force on the shared models: those of every
\* add-restriction call since the last remove-restriction call.
RECURSIVE Active(_)
Active(lists) ==
    IF lists = <<>> THEN <<>> ELSE Head(lists) \o Active(Tail(lists))

\* ------------------------------------------- BranchAndPriceSolver.solve
\* _get_next_node : `self._node_list.pop(-1)`
PopIndexMutant(list) == 1
PopIndex(list) == Len(list)

RemoveAtMutant(list, i) == list
RemoveAt(list, i) == SubSeq(list, 1, i - 1) \o SubSeq(list, i + 1, Len(list))

\* _make_children : two children of parent_node, no fixing added, and never
\* None.
_make_children(parent_node, partial_solution) ==
    Tup(create_child(parent_node), create_child(parent_node))

\* `if children is not None: for child in children: append`
Push(children) ==
    IF children = None
    THEN UNCHANGED <<nodes, node_list>>
    ELSE /\ Len(nodes) + 2 <= MaxNodes
         /\ nodes' = nodes \o <<children.a, children.b>>
         /\ node_list' = node_list \o <<Len(nodes) + 1, Len(nodes) + 2>>

\* "is this new solution better?"
Better(repaired_solution, inc) ==
    repaired_solution.objective_value > inc.objective_value

\* "Check if upper bound < lower bound"
BoundFailed(node_bound, inc, sense) ==
    \/ (node_bound.n < inc.objective_value /\ sense = "max")
    \/ (node_bound.n > inc.objective_value /\ sense = "min")

\* What one pass of the tree-search loop did with the node it popped.
Did(bound, partial, called, rep, compared, pruned, pushed) ==
    [processed |-> TRUE, how |-> exit, bound |-> bound,
     integral |-> (partial.t = "lam" /\ ~partial.frac),
     repair_called |-> called, repaired |-> rep, compared |-> compared,
     pruned |-> pruned, pushed |-> pushed, before |-> incumbent]

Abort(e) ==
    /\ pc' = "error"
    /\ error' = e

\* `self._node_list.append(Node.get_root_node(self.problem))`
Start ==
    /\ pc = "start"
    /\ cg_solvers' = cg_solvers + 1
    /\ extreme_points' = InitialColumns
    /\ nodes' = <<Node(0, cg_solvers + 1)>>
    /\ node_list' = <<1>>
    /\ pc' = "loop"
    /\ UNCHANGED <<impl, problem, repair, backend, calls,
                   rmp_cols, sp_objective, sp_call, priced, incumbent, solution,
                   returned, cur,
                   ret, exit, iteration, rmp_solves, added, add_calls,
                   remove_calls, applied, error, last>>

\* `node = self._get_next_node()` and the entry of node.solve().
GetNextNode ==
    /\ pc = "loop"
    /\ Len(node_list) > 0
    /\ LET i == PopIndex(node_list)
       IN /\ cur' = node_list[i]
          /\ node_list' = RemoveAt(node_list, i)
          /\ Enter(get_fixed_vars(nodes, node_list[i]))
    /\ pc' = "cg"
    /\ last' = NoLast
    /\ UNCHANGED <<impl, problem, repair, backend, calls,
                   rmp_cols, sp_objective, sp_call, nodes, incumbent, solution,
                   returned, extreme_points, cg_solvers, error>>

\* "Branch and bound complete"
Finish ==
    /\ pc = "loop"
    /\ ~(Len(node_list) > 0)
    /\ solution' = incumbent
    /\ returned' = incumbent
    /\ pc' = "done"
    /\ UNCHANGED <<impl, problem, repair, backend, calls, node_list, nodes,
                   incumbent, cur,
                   ret, exit, error, last, cg_solvers>>
    /\ UNCHANGED cgvars

\* The rest of the loop body of the template's solve
\* (src/branch_and_price.py lines 140-174), from the unpacking of what
\* node.solve() returned.
TemplateProcess ==
    /\ pc = "ret" /\ impl = "template"
    /\ UNCHANGED <<impl, problem, repair, backend, calls, solution, returned,
                   cur, ret, exit,
                   cg_solvers>>
    /\ UNCHANGED cgvars
    /\ IF ret.t # "tuple"
       THEN \* node_bound, partial_solution = None
            /\ Abort("TypeError")
            /\ last' = Did(None, None, FALSE, None, FALSE, FALSE, 0)
            /\ UNCHANGED <<incumbent, nodes, node_list>>
       ELSE
       LET node_bound == ret.a
           partial_solution == ret.b
       IN \E repaired_solution \in _heuristic_repair(partial_solution) :
          LET inc == IF repaired_solution # None
                     THEN IF incumbent = None
                          THEN repaired_solution
                          ELSE IF Better(repaired_solution, incumbent)
                          THEN repaired_solution
                          ELSE incumbent
                     ELSE incumbent
          IN /\ incumbent' = inc
             /\ IF inc = None
                THEN \* None has no attribute objective_value
                     /\ Abort("AttributeError")
                     /\ last' = Did(node_bound, partial_solution, TRUE,
                                    repaired_solution, FALSE, FALSE, 0)
                     /\ UNCHANGED <<nodes, node_list>>
                ELSE IF node_bound = None
                THEN \* None < float
                     /\ Abort("TypeError")
                     /\ last' = Did(node_bound, partial_solution, TRUE,
                                    repaired_solution, FALSE, FALSE, 0)
                     /\ UNCHANGED <<nodes, node_list>>
                ELSE IF BoundFailed(node_bound, inc, problem.sense)
                THEN \* "Dont branch! Go straight to next node"
                     /\ pc' = "loop"
                     /\ last' = Did(node_bound, partial_solution, TRUE,
                                    repaired_solution, TRUE, TRUE, 0)
                     /\ UNCHANGED <<nodes, node_list, error>>
                ELSE LET children == _make_children(cur, partial_solution)
                     IN /\ Push(children)
                        /\ pc' = "loop"
                        /\ last' = Did(node_bound, partial_solution, TRUE,
                                       repaired_solution, TRUE, FALSE,
                                       IF children = None THEN 0 ELSE 2)
                        /\ UNCHANGED error

\* `(partial_solution > 0) & (partial_solution < 1)` has a true entry
Fractional(partial_solution) == partial_solution.frac

\* The rest of the loop body of the cutting-stock solve
\* (src/cut_stock_example/branch_and_price.py lines 140-163).
CutStockProcess ==
    /\ pc = "ret" /\ impl = "cutstock"
    /\ UNCHANGED <<impl, problem, repair, backend, calls, solution, returned,
                   cur, ret, exit,
                   cg_solvers>>
    /\ UNCHANGED cgvars
    /\ LET partial_solution == ret
       IN IF partial_solution.t = "tuple"
          THEN \* (None, None) > 0
               /\ Abort("TypeError")
               /\ last' = Did(None, partial_solution, FALSE, None, FALSE,
                              FALSE, 0)
               /\ UNCHANGED <<incumbent, nodes, node_list>>
          ELSE IF Fractional(partial_solution)
          THEN \E repaired_solution \in _heuristic_repair(partial_solution) :
               /\ last' = Did(None, partial_solution, TRUE, repaired_solution,
                              FALSE, FALSE, 0)
               /\ UNCHANGED <<nodes, node_list>>
               /\ IF incumbent = None
                  THEN /\ incumbent' = repaired_solution
                       /\ pc' = "loop"
                       /\ UNCHANGED error
                  ELSE IF repaired_solution = None
                  THEN \* None has no attribute objective_value
                       /\ Abort("AttributeError")
                       /\ UNCHANGED incumbent
                  ELSE /\ incumbent' = IF Better(repaired_solution, incumbent)
                                       THEN repaired_solution
                                       ELSE incumbent
                       /\ pc' = "loop"
                       /\ UNCHANGED error
          ELSE LET children == _make_children(cur, partial_solution)
               IN /\ Push(children)
                  /\ pc' = "loop"
                  /\ last' = Did(None, partial_solution, FALSE, None, FALSE,
                                 FALSE, IF children = None THEN 0 ELSE 2)
                  /\ UNCHANGED <<incumbent, error>>

Next ==
    \/ Start
    \/ GetNextNode
    \/ TemplateCGIterate
    \/ TemplateCGLimit
    \/ CutStockCGIterate
    \/ CutStockCGLimit
    \/ TemplateProcess
    \/ CutStockProcess
    \/ Finish

Spec == Init /\ [][Next]_vars

\* ------------------------------------------- the two-item tree search
\* BranchAndPriceSolver(ScenarioB).solve() of the cutting-stock example:
\* the search of Spec on the instance whose pricing has two optimal
\* patterns.
ScenarioInit ==
    /\ impl = "cutstock"
    /\ problem = ScenarioB
    /\ repair \in {"default", "pluggable"}
    /\ pc = "start"
    /\ node_list = <<>>
    /\ nodes = <<>>
    /\ incumbent = None
    /\ solution = None
    /\ returned = None
    /\ cur = 0
    /\ ret = None
    /\ exit = "none"
    /\ iteration = 0
    /\ rmp_solves = 0
    /\ added = 0
    /\ add_calls = 0
    /\ remove_calls = 0
    /\ applied = <<>>
    /\ extreme_points = <<>>
    /\ cg_solvers = 0
    /\ error = "none"
    /\ last = NoLast
    /\ backend = "opaque"
    /\ calls = 0
    /\ rmp_cols = 0
    /\ sp_objective = None
    /\ sp_call = NoSpCall
    /\ priced = None

ScenarioNext ==
    \/ Start
    \/ GetNextNode
    \/ Finish
    \/ CutStockCGIterate
    \/ CutStockCGLimit
    \/ CutStockProcess

ScenarioSpec == ScenarioInit /\ [][ScenarioNext]_vars

\* ------------------------------------------------------------ Node API
\* A tree built through the Node class alone: get_root_node, create_child,
\* add_fixed_var and get_fixed_vars on any node, the root included.
Vars == {"x"}
Vals == {0, 1}

NodeInit ==
    /\ impl \in {"template", "cutstock"}
    /\ problem = IF impl = "template" THEN Problem("max") ELSE ScenarioB
    /\ repair = "default"
    /\ pc = "api"
    /\ node_list = <<>>
    /\ nodes = <<Node(0, 1)>>
    /\ incumbent = None
    /\ solution = None
    /\ returned = None
    /\ cur = 0
    /\ ret = None
    /\ exit = "none"
    /\ iteration = 0
    /\ rmp_solves = 0
    /\ added = 0
    /\ add_calls = 0
    /\ remove_calls = 0
    /\ applied = <<>>
    /\ extreme_points = InitialColumns
    /\ cg_solvers = 1
    /\ error = "none"
    /\ last = NoLast
    /\ backend = "opaque"
    /\ calls = 0
    /\ rmp_cols = 0
    /\ sp_objective = None
    /\ sp_call = NoSpCall
    /\ priced = None

NodeFrame ==
    UNCHANGED <<impl, problem, repair, backend, calls,
                   rmp_cols, sp_objective, sp_call, priced, pc, node_list,
                   incumbent,
                   solution,
                returned, cur, exit, iteration, rmp_solves, added, add_calls,
                remove_calls, applied, extreme_points, cg_solvers, error,
                last>>

\* `Node.create_child(node)`
NodeCreateChild ==
    /\ pc = "api"
    /\ Len(nodes) < MaxTreeNodes
    /\ \E parent \in 1..Len(nodes) :
          nodes' = Append(nodes, create_child(parent))
    /\ UNCHANGED ret
    /\ NodeFrame

\* `node.add_fixed_var(var, val)`
NodeAddFixedVar ==
    /\ pc = "api"
    /\ \E n \in 1..Len(nodes) : \E var \in Vars : \E val \in Vals :
          nodes' = add_fixed_var(nodes, n, var, val)
    /\ UNCHANGED ret
    /\ NodeFrame

\* `node.get_fixed_vars()` called twice in a row on one node; the record
\* keeps both lists, whether a node changed, and the root's fixing at the
\* time of the call.
NodeGetFixedVars ==
    /\ pc = "api"
    /\ nodes' = nodes
    /\ \E n \in 1..Len(nodes) :
          ret' = [t |-> "list", of |-> n,
                  first |-> get_fixed_vars(nodes, n),
                  second |-> get_fixed_vars(nodes', n),
                  modified |-> (nodes' # nodes),
                  root |-> nodes[1].fixed_var]
    /\ NodeFrame

NodeNext ==
    \/ NodeCreateChild
    \/ NodeAddFixedVar
    \/ NodeGetFixedVars

NodeSpec == NodeInit /\ [][NodeNext]_vars

\* ------------------------------------------------ direct solver calls
\* A ColumnGenerationSolver used as the tests use it: constructed for an
\* instance, then `cg.solve()` with no restrictions (fixings=None), and
\* `cg.sp.solve(dual_values)` called by hand.  The CPLEX answers are
\* computed.
LPInstances ==
    { ScenarioA, ScenarioB,
      CutStockProblem(2, <<1>>, <<1>>),
      CutStockProblem(2, <<1, 1>>, <<1, 1>>),
      CutStockProblem(4, <<1, 3>>, <<2, 1>>) }

\* Dual vectors handed to SubProblem.solve by hand, of every length up to
\* three.
DirectDuals ==
    UNION { {Vec(y) : y \in [1..n -> {0, UNIT}]} : n \in 0..3 }

DirectInit ==
    /\ impl = "cutstock"
    /\ problem \in LPInstances
    /\ repair = "default"
    /\ pc = "idle"
    /\ node_list = <<>>
    /\ nodes = <<>>
    /\ incumbent = None
    /\ solution = None
    /\ returned = None
    /\ cur = 0
    /\ ret = None
    /\ exit = "none"
    /\ iteration = 0
    /\ rmp_solves = 0
    /\ added = 0
    /\ add_calls = 0
    /\ remove_calls = 0
    /\ applied = <<>>
    /\ extreme_points = InitialColumns
    /\ cg_solvers = 1
    /\ error = "none"
    /\ last = NoLast
    /\ backend = "computed"
    /\ calls = 0
    /\ rmp_cols = 0
    /\ sp_objective = None
    /\ sp_call = NoSpCall
    /\ priced = None

\* `cg.solve()` : the entry of ColumnGenerationSolver.solve, fixings=None.
DirectSolve ==
    /\ pc = "idle"
    /\ calls < MaxCalls
    /\ calls' = calls + 1
    /\ Enter(None)
    /\ pc' = "cg"
    /\ UNCHANGED <<impl, problem, repair, backend, extreme_points,
                   cg_solvers, error>>
    /\ UNCHANGED spvars
    /\ UNCHANGED bpvars

\* The call returned to the test.
DirectReturn ==
    /\ pc = "ret"
    /\ pc' = "idle"
    /\ UNCHANGED <<impl, problem, repair, backend, calls, ret, exit,
                   cg_solvers, error>>
    /\ UNCHANGED cgvars
    /\ UNCHANGED bpvars

\* `cg.sp.solve(dual_values)` called by hand.
SpSolveDirect ==
    /\ pc = "idle"
    /\ \E dual_values \in DirectDuals :
       \E c \in SubProblemSolve(problem, dual_values) :
          /\ sp_call' = SpCall(FALSE, dual_values, c)
          /\ sp_objective' = IF c.objective_set THEN dual_values
                             ELSE sp_objective
          /\ IF c.raised
             THEN pc' = "error" /\ error' = c.result.e
             ELSE UNCHANGED <<pc, error>>
    /\ UNCHANGED <<impl, problem, repair, backend, calls, ret, exit,
                   iteration, rmp_solves, added, add_calls, remove_calls,
                   applied, extreme_points, rmp_cols, cg_solvers, priced>>
    /\ UNCHANGED bpvars

DirectNext ==
    \/ DirectSolve
    \/ CutStockCGIterate
    \/ CutStockCGLimit
    \/ DirectReturn
    \/ SpSolveDirect

DirectSpec == DirectInit /\ [][DirectNext]_vars

\* ------------------------------------------------------ stopping test
\* The "Check stopping criteria" test of both solve functions on its own:
\* a pricing objective within MaxDiff units of 1e-6 of the reduced-cost
\* reference, and the sense of the problem (a CutStockProblem is always
\* "max").
StopInit ==
    /\ impl \in {"template", "cutstock"}
    /\ problem \in IF impl = "template"
                   THEN {Problem(s) : s \in {"max", "min"}}
                   ELSE {ScenarioB}
    /\ repair = "default"
    /\ pc = "test"
    /\ node_list = <<>>
    /\ nodes = <<>>
    /\ incumbent = None
    /\ solution = None
    /\ returned = None
    /\ cur = 0
    /\ ret \in {Tup(Num(get_reduced_cost.n + d), get_reduced_cost) :
                    d \in (0 - MaxDiff)..MaxDiff}
    /\ exit = "none"
    /\ iteration = 0
    /\ rmp_solves = 0
    /\ added = 0
    /\ add_calls = 0
    /\ remove_calls = 0
    /\ applied = <<>>
    /\ extreme_points = <<>>
    /\ cg_solvers = 0
    /\ error = "none"
    /\ last = NoLast
    /\ backend = "opaque"
    /\ calls = 0
    /\ rmp_cols = 0
    /\ sp_objective = None
    /\ sp_call = NoSpCall
    /\ priced = None

\* The `if` of the stopping test is evaluated on the difference.
StopTest ==
    /\ pc = "test"
    /\ \E d \in Difference(ret.a, ret.b) :
          ret' = [t |-> "stop", d |-> d, stops |-> Stops(d, problem.sense)]
    /\ pc' = "tested"
    /\ UNCHANGED <<impl, problem, repair, backend, calls, exit, cg_solvers,
                   error>>
    /\ UNCHANGED cgvars
    /\ UNCHANGED bpvars

StopNext == StopTest

StopSpec == StopInit /\ [][StopNext]_vars

\* ------------------------------------------------- packing heuristic
\* `CutStockProblem(roll_width, size, demand).get_heuristic_solution()` on
\* every instance the constructor accepts (len(size) == len(demand),
\* roll_width >= size.max()); nothing there asks for positive numbers.
HeurInstances(p) ==
    \E n \in 1..MaxItems : \E w \in (0 - MaxNegative)..MaxWidth :
       \E size \in [1..n -> (0 - MaxNegative)..w] :
          \E demand \in [1..n -> (0 - MaxNegative)..MaxDemand] :
             p = CutStockProblem(w, size, demand)

HeurInit ==
    /\ impl = "cutstock"
    /\ HeurInstances(problem)
    /\ repair = "default"
    /\ pc = "heur"
    /\ node_list = <<>>
    /\ nodes = <<>>
    /\ incumbent = None
    /\ solution = None
    /\ returned = None
    /\ cur = 0
    /\ ret = None
    /\ exit = "none"
    /\ iteration = 0
    /\ rmp_solves = 0
    /\ added = 0
    /\ add_calls = 0
    /\ remove_calls = 0
    /\ applied = <<>>
    /\ extreme_points = <<>>
    /\ cg_solvers = 0
    /\ error = "none"
    /\ last = NoLast
    /\ backend = "opaque"
    /\ calls = 0
    /\ rmp_cols = 0
    /\ sp_objective = None
    /\ sp_call = NoSpCall
    /\ priced = None

\* `x = ct.get_heuristic_solution()`
HeurCall ==
    /\ pc = "heur"
    /\ ret' = [t |-> "patterns", x |-> get_heuristic_solution(problem)]
    /\ pc' = "heur_done"
    /\ UNCHANGED <<impl, problem, repair, backend, calls,
                   rmp_cols, sp_objective, sp_call, priced, node_list, nodes,
                   incumbent,
                   solution, returned, cur, exit, iteration, rmp_solves,
                   added, add_calls, remove_calls, applied, extreme_points,
                   cg_solvers, error, last>>

HeurNext == HeurCall

HeurSpec == HeurInit /\ [][HeurNext]_vars

\* x.sum(axis=0)[i]
RECURSIVE ColSum(_, _, _)
ColSum(x, i, k) == IF k = 0 THEN 0 ELSE x[k][i] + ColSum(x, i, k - 1)


\* ================================================================ claims

\* C1: every ColumnGenerationSolver.solve call that returns has made its one
\* add-restriction call and exactly one remove-restriction call, whichever
\* way it ended (converged, RMP infeasible, iteration cap).
C1_RestrictionPaired ==
    pc = "ret" => (add_calls = 1 /\ remove_calls = 1)

\* C2: a node whose solve reported infeasibility is discarded: no repair
\* attempt, no incumbent change, no prune comparison, no children, and the
\* search goes on to the next node without an error.
C2_InfeasibleNodeDiscarded ==
    (last.processed /\ last.how = "infeasible") =>
        /\ pc = "loop"
        /\ error = "none"
        /\ ~last.repair_called
        /\ ~last.compared
        /\ last.pushed = 0
        /\ incumbent = last.before

\* C3: when repair never yields a Solution (the default policy) the tree
\* search raises no error and returns None; whenever it returns, it returns
\* the incumbent held when the store emptied.  The first conjunct is about
\* nodes whose column generation converged, so that it does not rest on the
\* handling of infeasible nodes (C2) or of the iteration cap (C8).
C3_NoRepairReturnsNone ==
    /\ (repair = "default" /\ last.processed /\ last.how = "converged")
           => error = "none"
    /\ (repair = "default" /\ pc = "done") => returned = None
    /\ pc = "done" => returned = incumbent

\* C4: the store eventually empties because a node whose partial solution
\* has no fractional entry pushes no children.
C4_IntegralNodePushesNothing ==
    (last.processed /\ last.integral) => last.pushed = 0

\* C5: the incumbent changes only to a successfully repaired solution, and
\* only when there was no incumbent or the candidate is strictly better in
\* the direction of the problem sense; it never becomes absent again.
C5_IncumbentOnlyImproves ==
    (last.processed /\ incumbent # last.before) =>
        /\ incumbent # None
        /\ last.repaired # None
        /\ incumbent = last.repaired
        /\ \/ last.before = None
           \/ /\ problem.sense = "max"
              /\ incumbent.objective_value > last.before.objective_value
           \/ /\ problem.sense = "min"
              /\ incumbent.objective_value < last.before.objective_value

\* C6: in the template's tree search a feasible node pushes no children when
\* its bound is < the incumbent objective (max) or > it (min); every other
\* feasible node, also one processed while there is no incumbent, goes on to
\* branching.
C6_PruneRule ==
    (impl = "template" /\ last.processed /\ last.bound # None) =>
        IF /\ incumbent # None
           /\ \/ /\ problem.sense = "max"
                 /\ last.bound.n < incumbent.objective_value
              \/ /\ problem.sense = "min"
                 /\ last.bound.n > incumbent.objective_value
        THEN last.pushed = 0 /\ pc = "loop"
        ELSE ~last.pruned /\ pc = "loop" /\ error = "none"

\* C7: ColumnGenerationSolver.solve returns a pair on every exit path, and
\* on convergence the pair (RMP objective value, RMP solution).
C7_SolveReturnsPair ==
    pc = "ret" =>
        /\ ret.t = "tuple"
        /\ exit = "converged" => (ret.a.t = "num" /\ ret.b.t = "lam")

\* C8: when the iteration cap ends the loop, solve retracts the fixings and
\* returns the RMP objective value with the RMP solution (marked as not
\* certified), and the tree search is not aborted by it.
C8_IterationCapOutcome ==
    (exit = "limit" /\ pc # "cg") =>
        /\ remove_calls = 1
        /\ ret.t = "tuple"
        /\ ret.a.t = "num"
        /\ ret.b.t = "lam"
        /\ error = "none"

\* C9: a solve call makes at most MAX_ITERATION passes of its loop: at most
\* MAX_ITERATION RMP solves and at most MAX_ITERATION added columns,
\* whatever the pricing results are.
C9_IterationBound ==
    /\ iteration <= MAX_ITERATION
    /\ rmp_solves <= MAX_ITERATION
    /\ added <= MAX_ITERATION

\* A solve call that used every pass the cap allows, adding a column in each.
C9_Witness ==
    /\ pc = "ret"
    /\ exit = "limit"
    /\ iteration = MAX_ITERATION
    /\ rmp_solves = MAX_ITERATION
    /\ added = MAX_ITERATION

\* C10: an infeasible pricing solve appends nothing: no entry of the RMP
\* column list is an absent value.
C10_NoAbsentColumn ==
    \A i \in 1..Len(extreme_points) : extreme_points[i] # None

\* C11: in a search tree, whose root carries no fixing, get_fixed_vars() of
\* a node has as many entries as the node has ancestors (none for the
\* root), the k-th entry being the fixing of the node k - 1 parent links up
\* (the node's own first, that of the root's child last); a repeated call
\* returns the same list and no node is modified.
C11_FixedVarsByDepth ==
    /\ nodes[1].fixed_var = None =>
          \A n \in 1..Len(nodes) :
             LET l == get_fixed_vars(nodes, n)
             IN /\ Len(l) = Depth(nodes, n)
                /\ \A k \in 1..Len(l) :
                      l[k] = nodes[Ancestor(nodes, n, k - 1)].fixed_var
    /\ ret.t = "list" =>
          /\ ret.first = ret.second
          /\ ~ret.modified
          /\ ret.root = None => Len(ret.first) = Depth(nodes, ret.of)

\* get_fixed_vars was called on a grandchild of the root whose fixing
\* differs from its parent's.
C11_Witness ==
    /\ ret.t = "list"
    /\ ret.root = None
    /\ Depth(nodes, ret.of) = 2
    /\ Len(ret.first) = 2
    /\ ret.first[1].t = "fix"
    /\ ret.first[2].t = "fix"
    /\ ret.first[1] # ret.first[2]

\* C12: SubProblem.solve called with a dual vector whose length differs
\* from the number of SubProblem variables raises at once, before the
\* objective is set or the model is solved, and returns no column; a call
\* made by ColumnGenerationSolver.solve always passes a vector of that
\* length and never raises.
C12_DualDimension ==
    /\ (sp_call.called /\ sp_call.len # NumSpVars(problem)) =>
          /\ sp_call.raised
          /\ error = "AssertionError"
          /\ ~sp_call.objective_set
          /\ ~sp_call.solved
          /\ ~sp_call.returned
          /\ sp_objective = sp_call.objective_before
    /\ (sp_call.called /\ sp_call.within) =>
          /\ sp_call.len = NumSpVars(problem)
          /\ ~sp_call.raised
          /\ error # "AssertionError"

\* A hand-made call with a vector of the wrong length was refused after a
\* solve call had set the pricing objective from the RMP duals.
C12_Witness ==
    /\ sp_call.called
    /\ ~sp_call.within
    /\ sp_call.len # NumSpVars(problem)
    /\ sp_call.raised
    /\ calls > 0
    /\ sp_objective # None

\* C13: on every valid instance the patterns of get_heuristic_solution
\* cover the demand of every item (column sums >= demand) and no pattern is
\* longer than the roll (total size <= roll_width).
C13_HeuristicFeasible ==
    ret.t = "patterns" =>
        /\ \A i \in 1..problem.num_items :
              ColSum(ret.x, i, Len(ret.x)) >= problem.demand[i]
        /\ \A k \in 1..Len(ret.x) :
              Dot(ret.x[k], problem.size) <= problem.roll_width

\* C13 as amended: on every valid instance the patterns cover the demand of
\* every item, and every pattern has total size <= roll_width except the
\* empty pattern of an instance whose roll_width is negative.
C13_HeuristicFeasibleAmended ==
    ret.t = "patterns" =>
        /\ \A i \in 1..problem.num_items :
              ColSum(ret.x, i, Len(ret.x)) >= problem.demand[i]
        /\ \A k \in 1..Len(ret.x) :
              \/ Dot(ret.x[k], problem.size) <= problem.roll_width
              \/ /\ problem.roll_width < 0
                 /\ \A i \in 1..problem.num_items : ret.x[k][i] = 0

\* The heuristic had to open a second roll, and one roll holds both item
\* types.
C13_Witness ==
    /\ ret.t = "patterns"
    /\ problem.num_items = 2
    /\ Len(ret.x) >= 2
    /\ \E k \in 1..Len(ret.x) : ret.x[k][1] > 0 /\ ret.x[k][2] > 0

\* C14: after ColumnGenerationSolver.solve() with no restrictions the RMP
\* objective value is >= the optimum of the compact model that
\* CutStockProblem.cplex_solve() returns.
C14_BoundAboveCompact ==
    (pc = "idle" /\ calls > 0 /\ exit \in {"converged", "limit"}) =>
        RmpObjectiveValue.n >= cplex_solve(problem) * UNIT

\* C15: on the instance with roll width 100, sizes [50, 70] and demands
\* [10, 5] column generation converges before the iteration cap, and the
\* RMP objective of a converged solve is <= the integer-optimal number of
\* rolls, on that instance and on every other.
C15_RelaxationBound ==
    /\ (problem = ScenarioA /\ pc = "ret") =>
          /\ exit = "converged"
          /\ iteration < MAX_ITERATION
    /\ (pc = "ret" /\ exit = "converged") =>
          RmpObjectiveValue.n <= MinRolls(problem) * UNIT

\* Column generation converged on the instance of the claim with the RMP
\* objective at the integer optimum, ten rolls.
C15_Witness ==
    /\ problem = ScenarioA
    /\ pc = "ret"
    /\ exit = "converged"
    /\ RmpObjectiveValue.n = MinRolls(problem) * UNIT
    /\ MinRolls(problem) = Len(get_heuristic_solution(problem))

\* C16: on the instance with sizes [60, 60], demands [1, 1] and roll width
\* 100 the tree search, run with the repair routine of the code, finishes
\* with a final incumbent whose objective value is exactly 2.
C16_ScenarioBIncumbent ==
    (impl = "cutstock" /\ problem = ScenarioB /\ repair = "default"
        /\ pc = "done") =>
        /\ returned # None
        /\ returned.objective_value = 2 * UNIT

\* C17: while a node's column generation solves the RMP or the SubProblem
\* the restrictions in force are exactly that node's get_fixed_vars(), and
\* between two node solves no restriction is in force.
C17_RestrictionsOfNodeOnly ==
    /\ pc = "cg" => Active(applied) = get_fixed_vars(nodes, cur)
    /\ pc = "loop" => Active(applied) = <<>>

\* C18: the RMP column list is append-only: every step leaves the earlier
\* list as a prefix of the later one, so its length never decreases.
C18_AppendOnly ==
    [][/\ Len(extreme_points') >= Len(extreme_points)
       /\ SubSeq(extreme_points', 1, Len(extreme_points)) = extreme_points
      ]_vars

\* A later node's solve call has appended to the columns that earlier
\* solve calls left.
C18_Witness ==
    /\ pc = "ret"
    /\ cur > 1
    /\ added > 0
    /\ Len(extreme_points) > Len(InitialColumns) + added

\* C19: one BranchAndPriceSolver.solve constructs exactly one
\* ColumnGenerationSolver, and every node, root or child, references it.
C19_OneSharedSolver ==
    pc # "start" =>
        /\ cg_solvers = 1
        /\ \A n \in 1..Len(nodes) : nodes[n].cg_solver = 1

\* A child created by create_child is being solved on the shared solver.
C19_Witness ==
    /\ pc = "cg"
    /\ cur > 1
    /\ nodes[cur].parent # 0
    /\ nodes[cur].cg_solver = nodes[1].cg_solver

\* C20: every non-root node carries exactly one (variable, value) fixing,
\* the two children of a node carry complementary fixings on the same
\* variable, and no entry of a solved node's get_fixed_vars() is None.
C20_ChildrenCarryFixings ==
    /\ \A n \in 2..Len(nodes) :
          /\ nodes[n].fixed_var.t = "fix"
          /\ \A m \in 2..Len(nodes) :
                (m # n /\ nodes[m].parent = nodes[n].parent) =>
                   /\ nodes[m].fixed_var.t = "fix"
                   /\ nodes[m].fixed_var.var = nodes[n].fixed_var.var
                   /\ nodes[m].fixed_var.val # nodes[n].fixed_var.val
    /\ pc \in {"cg", "ret"} =>
          \A k \in 1..Len(get_fixed_vars(nodes, cur)) :
             get_fixed_vars(nodes, cur)[k] # None

\* C21: the loop stops exactly when sp_objval - reduced_cost is within
\* 1e-6 of the non-improving side: <= +1e-6 for sense max, >= -1e-6 for
\* sense min (so a difference of 0 stops a min problem).
C21_StopWithinTolerance ==
    ret.t = "stop" =>
        (ret.stops <=> IF problem.sense = "max"
                       THEN AtMost(ret.d, TOL)
                       ELSE AtLeast(ret.d, 0 - TOL))

\* C22: a column is appended only when its pricing objective minus the
\* reduced-cost reference has the improving sign (> 1e-6 for max, < -1e-6
\* for min); a priced column that passes the stopping test is not appended.
C22_AppendedColumnsImprove ==
    (/\ priced.t = "priced"
     /\ priced.result.a.t = "num"
     /\ Len(extreme_points) > priced.before) =>
        IF problem.sense = "max"
        THEN priced.result.a.n - get_reduced_cost.n > TOL
        ELSE priced.result.a.n - get_reduced_cost.n < 0 - TOL

\* C23: children are stored in the order the branching rule returns them
\* and the node taken is always the most recently stored one: every stored
\* node is older than the node in hand, and when a node is in hand its
\* later-returned sibling and that sibling's whole subtree have left the
\* store.
C23_DepthFirstOrder ==
    /\ \A k \in 1..(Len(node_list) - 1) : node_list[k] < node_list[k + 1]
    /\ pc \in {"cg", "ret"} =>
          /\ \A k \in 1..Len(node_list) : node_list[k] < cur
          /\ \A sib \in 1..Len(nodes) :
                (sib > cur /\ nodes[sib].parent = nodes[cur].parent) =>
                   \A m \in 1..Len(nodes) :
                      (m = sib \/ IsDescendant(nodes, m, sib)) =>
                         \A k \in 1..Len(node_list) : node_list[k] # m

\* The first-returned child of the root is in hand after its sibling and
\* the sibling's two children were solved.
C23_Witness ==
    /\ pc = "cg"
    /\ cur = 2
    /\ Len(nodes) = 5
    /\ nodes[4].parent = 3
    /\ nodes[5].parent = 3
    /\ node_list = <<>>

\* C24: SubProblem.solve returns (objective_value, column); the solve loop
\* puts the first component through the stopping test and appends the
\* second to the RMP.
C24_PricingResultOrder ==
    priced.t = "priced" =>
        /\ priced.tested = priced.result.a
        /\ extreme_points[priced.before + 1] = priced.result.b

\* C25: the RMP of a freshly constructed ColumnGenerationSolver is
\* feasible, the heuristic patterns with weight 1 each covering every
\* demand, and solve() with no fixings never ends infeasible.
C25_FreshRmpFeasible ==
    /\ exit # "infeasible"
    /\ ret # Tup(None, None)
    /\ calls = 0 =>
          /\ is_feasible(problem, extreme_points) = {TRUE}
          /\ \A i \in 1..problem.num_items :
                ColSum([k \in 1..Len(extreme_points) |-> extreme_points[k].x],
                       i, Len(extreme_points)) >= problem.demand[i]

\* The first solve of a fresh solver found the RMP feasible at its first
\* pass and converged there.
C25_Witness ==
    /\ problem = ScenarioB
    /\ calls = 1
    /\ pc = "ret"
    /\ exit = "converged"
    /\ iteration = 1
    /\ rmp_cols = Len(get_heuristic_solution(problem))
    /\ ret.t = "lam"

\* C26: a node leaves the store when it is selected and never comes back:
\* the store holds no node twice and not the node in hand, only nodes
\* created by the step enter it, and the node selected was in the store.
C26_SolvedAtMostOnce ==
    [][/\ \A j, k \in 1..Len(node_list') :
            node_list'[j] = node_list'[k] => j = k
       /\ pc' \in {"cg", "ret"} =>
            \A k \in 1..Len(node_list') : node_list'[k] # cur'
       /\ \A k \in 1..Len(node_list') :
            \/ \E j \in 1..Len(node_list) : node_list[j] = node_list'[k]
            \/ node_list'[k] > Len(nodes)
       /\ cur' # cur =>
            /\ \E j \in 1..Len(node_list) : node_list[j] = cur'
            /\ \A k \in 1..Len(node_list') : node_list'[k] # cur'
      ]_vars

\* Every created node went through the store and was taken from it, the
\* first-returned child of the root last.
C26_Witness ==
    /\ pc = "loop"
    /\ node_list = <<>>
    /\ Len(nodes) >= 3
    /\ cur = 2

====
